---- MODULE Spec2Model ----
(***************************************************************************)
(* QuestWeaver: the semantic memory store (Backend/chroma_connection.py,   *)
(* class MemoryManager) seen as a state machine over the Chroma            *)
(* collection "quest_memories".  Every MemoryManager method is one action; *)
(* the answers of the embedding provider and of the vector index (which    *)
(* records the nearest-neighbour query returns, in which order, and        *)
(* whether the call raises) are inputs chosen by the action.               *)
(*                                                                         *)
(* Around the store: the helpers of StoryGenerator that build the memory   *)
(* context and extract the key events (Backend/story_generator.py), the    *)
(* run of continue_story step by step, and the handlers of main.py that    *)
(* delete a session or an account, limit the rate of the requests          *)
(* (SimpleRateLimiter) and run the image task                              *)
(* (Backend/image_generator.py).  The specifications share the variables:  *)
(* Spec (the MemoryManager calls), SpecRecent (get_recent_memories on a    *)
(* filled collection), SpecExtract (direct calls of _extract_key_events),  *)
(* SpecStory (turns of continue_story), SpecDelete (sessions created,      *)
(* filled and deleted), SpecLimiter (requests to the limited endpoints)    *)
(* and SpecImages (image tasks queued and run).                            *)
(***************************************************************************)
EXTENDS Integers, Sequences, FiniteSets, TLC

\* ---------------------------------------------------------------- bounds
\* Largest value of int(time.time()) the model lets the clock reach.
MaxClock == 1
\* Largest number of records the collection holds.
MaxRecords == 2
\* Largest k of retrieve_memories and largest limit of get_recent_memories.
MaxK == 1
\* Largest number of lines of a text handed to _extract_key_events.
MaxLines == 2
\* Largest number of records of a collection get_recent_memories reads when
\* it is looked at on its own.
MaxPool == 4
\* the wall clock of the rate limiter runs from 0 to MaxNow seconds
MaxNow == 4
\* max_requests of the limited endpoints, scaled down (5 and 3 in the source)
MaxRequests == 2
\* window_seconds of the limited endpoints, scaled down (60 in the source)
WindowSeconds == 2

\* ------------------------------------------------------- program constants
\* retrieve_memories asks the index for k * 10 candidates.
OVERFETCH == 10
\* get_recent_memories asks the index for limit * 3 candidates.
RECENT_FETCH == 3
\* delete_chat_memories' fallback query: n_results.  The source asks for
\* 1000; the model keeps the collection at MaxRecords records, so the value
\* is scaled down with it, to a collection that can hold more records than
\* one query returns.
N_RESULTS == 1

\* ------------------------------------------------------------ input values
Users == {"u1", "u2"}
Chats == {"c1", "c2"}
\* The user a chat session belongs to: the callers store under that user.
Owner(chat_id) == IF chat_id = "c1" THEN "u1" ELSE "u2"
Roles == {"user", "assistant"}
\* The texts stored: a content with its memory_type.
Texts == {[content |-> "X", memory_type |-> "action"],
          [content |-> "Y", memory_type |-> "lore"]}
\* Python's None where a string is expected (dict.get, a missing return value).
None == "None"
\* An Optional argument: Absent is None, Given(x) is the value x.
Absent == <<>>
Given(x) == <<x>>
\* additional_metadata: None, or a mapping; this one names a core field.
Extras == {Absent, Given([user_id |-> "u2"])}
\* memory_types and include_roles: each None, the empty list or a list.
Filters == {[memory_types |-> Absent, include_roles |-> Absent],
            [memory_types |-> Given(<<>>), include_roles |-> Given(<<>>)],
            [memory_types |-> Given(<<"action">>), include_roles |-> Absent],
            [memory_types |-> Absent, include_roles |-> Given(<<"user">>)],
            [memory_types |-> Given(<<"action">>), include_roles |-> Given(<<"user">>)]}

VARIABLES
    \* the records of the Chroma collection: [id, page_content, metadata]
    store,
    \* int(time.time())
    clock,
    \* the call of a MemoryManager method that has just returned (its
    \* arguments and its outcome), or idle
    last,
    \* a direct call of a StoryGenerator helper: its arguments, and its
    \* result once it has returned
    call,
    \* the run of continue_story: where it stands, its arguments and its
    \* local variables, the steps it has taken and what it returned
    story,
    \* table "chats" of the relational database: for each session id, "free"
    \* (uuid4 has not drawn it yet), "row" (the session's row is in the
    \* table) or "gone" (the row has been deleted)
    chats,
    \* the global SimpleRateLimiter: requests, for each key the times of the
    \* calls it has let through and not yet dropped; granted, for each key
    \* the times of all the calls it has let through (kept for the
    \* properties, the program does not hold it)
    rate_limiter,
    \* for each session id, the columns world_image_status and
    \* character_image_status of its row, and the objects of the bucket
    \* that the last run of the image task has put for it
    images

vars == <<store, clock, last, call, story, chats, rate_limiter, images>>

Idle == [op |-> "idle"]

\* No helper is called.
NoCall == [fn |-> "none"]

\* continue_story has not been called.
NoStory == [pc |-> "idle"]

\* ------------------------------------------------------------- Python bits
\* dict.get(key): the value, or None when the key is absent.
Get(d, key) == IF key \in DOMAIN d THEN d[key] ELSE None

\* {**a, **b}: the keys of both, b's value where both have the key.
Merge(a, b) ==
    [key \in DOMAIN a \cup DOMAIN b |-> IF key \in DOMAIN b THEN b[key] ELSE a[key]]

\* x in list
InList(x, list) == \E i \in 1..Len(list) : list[i] = x

\* A test for None only: the empty list counts as a list.
TruthyGiven(list) == list # Absent

\* bool(list) for an Optional[List]: None and [] are falsy.
Truthy(list) == list # Absent /\ Len(list[1]) > 0

Ids(S) == {e.id : e \in S}

Min(a, b) == IF a < b THEN a ELSE b

\* langchain's Document of a record: page_content and metadata.
Document(e) == [page_content |-> e.page_content, metadata |-> e.metadata]

\* ------------------------------------------------------------ the index
\* What a query for n records can answer on collection S: the call raises
\* (ok = FALSE), or returns min(n, |S|) distinct records, in the order the
\* embedding distances give, which the caller does not control.
Answers(S, n) ==
    LET m == Min(n, Cardinality(S))
    IN  {[ok |-> FALSE, docs |-> <<>>]} \cup
        {[ok |-> TRUE, docs |-> d] :
            d \in {s \in [1..m -> S] : \A i, j \in 1..m : i # j => s[i] # s[j]}}

\* ------------------------------------------------------------ store_memory
\* f"{chat_id}_{role}_{int(time.time())}"
MemoryId(chat_id, role, now) == chat_id \o "_" \o role \o "_" \o ToString(now)

\* The metadata dict of store_memory.
Metadata(user_id, chat_id, role, memory_type, now, additional_metadata) ==
    Merge([user_id |-> user_id,
           chat_id |-> chat_id,
           role |-> role,
           memory_type |-> memory_type,
           timestamp |-> ToString(now)],
          \* additional_metadata or {}
          IF additional_metadata = Absent THEN <<>> ELSE additional_metadata[1])

\* vectorstore.add_texts(texts, metadatas, ids): langchain's Chroma upserts,
\* the record of an id that is already in the collection is replaced.
AddTexts(S, entry) == {e \in S : e.id # entry.id} \cup {entry}

\* A handler that logs the exception and returns as if nothing had happened.
StoreFailedSwallowed(S, entry) == [raised |-> FALSE, result |-> entry.id, store |-> S]

\* except Exception: log and raise.  add_texts embeds the text, then upserts
\* the one record; whichever of the two raises, the collection is as before.
StoreFailed(S, entry) == [raised |-> TRUE, result |-> None, store |-> S]

\* The outcome of store_memory: memory_id, or the exception of add_texts.
StoreOutcome(S, entry, fails) ==
    IF fails THEN StoreFailed(S, entry)
    ELSE [raised |-> FALSE, result |-> entry.id, store |-> AddTexts(S, entry)]

\* store_memory: the id is returned, or the exception of add_texts (embedding
\* or index failure) is logged and raised again; nothing is written then.
\* The callers store a chat's records under the chat's owner.  Both reads of
\* time.time(), for the timestamp and for the id, fall in the second `clock`.
store_memory ==
    \E text \in Texts, chat_id \in Chats, role \in Roles,
       additional_metadata \in Extras, fails \in BOOLEAN :
        LET user_id == Owner(chat_id)
            memory_id == MemoryId(chat_id, role, clock)
            entry == [id |-> memory_id,
                      page_content |-> text.content,
                      metadata |-> Metadata(user_id, chat_id, role, text.memory_type,
                                            clock, additional_metadata)]
            out == StoreOutcome(store, entry, fails)
        IN  /\ last = Idle
            /\ fails \/ memory_id \in Ids(store) \/ Cardinality(store) < MaxRecords
            /\ store' = out.store
            /\ last' = [op |-> "store", user_id |-> user_id, chat_id |-> chat_id,
                        role |-> role, content |-> text.content,
                        additional_metadata |-> additional_metadata,
                        failed |-> fails,
                        raised |-> out.raised, result |-> out.result]
            /\ UNCHANGED clock

\* -------------------------------------------------------- retrieve_memories
\* A scope test that forgets the user.
ScopeMatchesChatOnly(metadata, user_id, chat_id) ==
    ~ (Get(metadata, "chat_id") # chat_id)

\* Must match user_id and chat_id.
ScopeMatches(metadata, user_id, chat_id) ==
    ~ (Get(metadata, "user_id") # user_id \/ Get(metadata, "chat_id") # chat_id)

\* A filter that never looks at the memory type.
KindNeverRejected(metadata, memory_types) == FALSE

\* if memory_types and metadata.get("memory_type") not in memory_types: continue
KindRejected(metadata, memory_types) ==
    Truthy(memory_types) /\ ~ InList(Get(metadata, "memory_type"), memory_types[1])

\* if include_roles and metadata.get("role") not in include_roles: continue
RoleRejected(metadata, include_roles) ==
    Truthy(include_roles) /\ ~ InList(Get(metadata, "role"), include_roles[1])

\* A length test that is off by one.
EnoughOffByOne(filtered_docs, k) == Len(filtered_docs) > k

\* Stop when we have enough.
Enough(filtered_docs, k) == Len(filtered_docs) >= k

\* A loop that walks the candidates from the last one to the first.
RECURSIVE FilterRelevantFromEnd(_, _, _, _, _, _, _, _)
FilterRelevantFromEnd(docs, i, filtered_docs, user_id, chat_id, k, memory_types, include_roles) ==
    IF i > Len(docs) THEN filtered_docs
    ELSE LET doc == docs[Len(docs) + 1 - i]
         IN  IF \/ ~ ScopeMatches(doc.metadata, user_id, chat_id)
                \/ KindRejected(doc.metadata, memory_types)
                \/ RoleRejected(doc.metadata, include_roles)
             THEN FilterRelevantFromEnd(docs, i + 1, filtered_docs, user_id, chat_id,
                                        k, memory_types, include_roles)
             ELSE LET appended == Append(filtered_docs, Document(doc))
                  IN  IF Enough(appended, k) THEN appended
                      ELSE FilterRelevantFromEnd(docs, i + 1, appended, user_id,
                                                 chat_id, k, memory_types,
                                                 include_roles)

\* The manual filter loop of retrieve_memories from docs[i] on.
RECURSIVE FilterRelevant(_, _, _, _, _, _, _, _)
FilterRelevant(docs, i, filtered_docs, user_id, chat_id, k, memory_types, include_roles) ==
    IF i > Len(docs) THEN filtered_docs
    ELSE IF \/ ~ ScopeMatches(docs[i].metadata, user_id, chat_id)
            \/ KindRejected(docs[i].metadata, memory_types)
            \/ RoleRejected(docs[i].metadata, include_roles)
         THEN FilterRelevant(docs, i + 1, filtered_docs, user_id, chat_id, k,
                             memory_types, include_roles)
         ELSE LET appended == Append(filtered_docs, Document(docs[i]))
              IN  IF Enough(appended, k) THEN appended
                  ELSE FilterRelevant(docs, i + 1, appended, user_id, chat_id, k,
                                      memory_types, include_roles)

\* A search that asks the index for k candidates only.
SimilaritySearchExact(k) == [k |-> k, filter |-> Absent]

\* similarity_search(query, k=k * 10): the one query of retrieve_memories; it
\* asks for more candidates than k and hands the index no metadata filter.
SimilaritySearch(k) == [k |-> k * OVERFETCH, filter |-> Absent]

\* A handler that logs and raises again, as store_memory's does.
RetrieveFailedRaises == [raised |-> TRUE, result |-> <<>>]

\* except Exception: log and return [].
RetrieveFailed == [raised |-> FALSE, result |-> <<>>]

\* The outcome of retrieve_memories on the answer of similarity_search.
RetrieveOutcome(answer, user_id, chat_id, k, memory_types, include_roles) ==
    IF ~ answer.ok THEN RetrieveFailed
    ELSE [raised |-> FALSE,
          result |-> FilterRelevant(answer.docs, 1, <<>>, user_id, chat_id, k,
                                    memory_types, include_roles)]

retrieve_memories ==
    /\ last = Idle
    /\ \E k \in 1..MaxK :
        \E answer \in Answers(store, SimilaritySearch(k).k) :
        \E user_id \in Users, chat_id \in Chats, filter \in Filters :
            LET out == RetrieveOutcome(answer, user_id, chat_id, k,
                                       filter.memory_types, filter.include_roles)
            IN  /\ last' = [op |-> "retrieve", user_id |-> user_id, chat_id |-> chat_id,
                            k |-> k, memory_types |-> filter.memory_types,
                            include_roles |-> filter.include_roles,
                            queries |-> <<SimilaritySearch(k)>>,
                            candidates |-> answer.docs,
                            failed |-> ~ answer.ok,
                            raised |-> out.raised, result |-> out.result]
                /\ UNCHANGED <<store, clock>>

\* ------------------------------------------------------ get_recent_memories
\* The manual filter loop of get_recent_memories (both paths) from docs[i] on:
\* the length test follows every iteration.
RECURSIVE FilterRecent(_, _, _, _, _, _)
FilterRecent(docs, i, filtered_docs, user_id, chat_id, limit) ==
    IF i > Len(docs) THEN filtered_docs
    ELSE LET kept == IF Get(docs[i].metadata, "user_id") = user_id
                        /\ Get(docs[i].metadata, "chat_id") = chat_id
                     THEN Append(filtered_docs, Document(docs[i]))
                     ELSE filtered_docs
         IN  IF Len(kept) >= limit THEN kept
             ELSE FilterRecent(docs, i + 1, kept, user_id, chat_id, limit)

\* The outcome of get_recent_memories: the similarity search's answer
\* filtered; when that call raises, collection.get()'s answer filtered; when
\* that raises too, [].
RecentOutcome(answer, all_results, user_id, chat_id, limit) ==
    IF answer.ok
    THEN [path |-> "vectorstore", raised |-> FALSE,
          result |-> FilterRecent(answer.docs, 1, <<>>, user_id, chat_id, limit)]
    ELSE IF all_results.ok
    THEN [path |-> "fallback", raised |-> FALSE,
          result |-> FilterRecent(all_results.docs, 1, <<>>, user_id, chat_id, limit)]
    ELSE [path |-> "none", raised |-> FALSE, result |-> <<>>]

\* A reader that tries the similarity search a second time before it falls
\* back.
RecentCallsRetry(answer) ==
    IF answer.ok THEN <<"similarity_search">>
    ELSE <<"similarity_search", "similarity_search", "get">>

\* The calls get_recent_memories makes on the index: the similarity search,
\* and collection.get() in the handler of its exception.
RecentCalls(answer) ==
    IF answer.ok THEN <<"similarity_search">> ELSE <<"similarity_search", "get">>

\* The call may follow a store_memory that succeeded without anything in
\* between; last'.after is then that call.
get_recent_memories ==
    /\ last = Idle \/ (last.op = "store" /\ ~ last.raised)
    /\ \E limit \in 1..MaxK :
        \E answer \in Answers(store, limit * RECENT_FETCH) :
            \E all_results \in IF answer.ok THEN {answer}
                               ELSE Answers(store, Cardinality(store)) :
            \E user_id \in Users, chat_id \in Chats :
                LET out == RecentOutcome(answer, all_results, user_id, chat_id, limit)
                IN  /\ last' = [op |-> "recent", user_id |-> user_id,
                                chat_id |-> chat_id, limit |-> limit,
                                path |-> out.path, raised |-> out.raised,
                                result |-> out.result,
                                calls |-> RecentCalls(answer),
                                after |-> IF last = Idle THEN Absent ELSE Given(last)]
                    /\ UNCHANGED <<store, clock>>

\* ----------------------------------------------------- delete_chat_memories
\* A delete whose filter matches every record.
DeleteWhereAny(S, chat_id) == {}

\* collection.delete(where={"chat_id": {"$eq": chat_id}})
DeleteWhere(S, chat_id) == {e \in S : Get(e.metadata, "chat_id") # chat_id}

\* The ids of the fallback: those of the query's results whose chat_id matches.
IdsToDelete(docs, chat_id) ==
    {docs[i].id : i \in {j \in 1..Len(docs) : Get(docs[j].metadata, "chat_id") = chat_id}}

\* collection.delete(ids=ids_to_delete)
DeleteIds(S, ids) == {e \in S : e.id \notin ids}

\* The calls delete_chat_memories makes on the collection: the delete by
\* filter; in the handler of its exception the query, and the delete by ids
\* when the query found ids to delete.
DeleteCalls(chat_id, direct_fails, results) ==
    IF ~ direct_fails THEN <<"delete_where">>
    ELSE IF ~ results.ok \/ IdsToDelete(results.docs, chat_id) = {}
    THEN <<"delete_where", "query">>
    ELSE <<"delete_where", "query", "delete_ids">>

\* A fallback that reports failure when it finds nothing to delete.
DeleteFallbackStrict(S, chat_id, results, delete_fails) ==
    IF ~ results.ok \/ IdsToDelete(results.docs, chat_id) = {} \/ delete_fails
    THEN [path |-> "none", result |-> FALSE, store |-> S]
    ELSE [path |-> "fallback", result |-> TRUE,
          store |-> DeleteIds(S, IdsToDelete(results.docs, chat_id))]

\* The fallback of delete_chat_memories on the answer of collection.query:
\* True when the query did not raise and either there is nothing to delete or
\* the delete by ids did not raise.
DeleteFallback(S, chat_id, results, delete_fails) ==
    IF ~ results.ok THEN [path |-> "none", result |-> FALSE, store |-> S]
    ELSE LET ids_to_delete == IdsToDelete(results.docs, chat_id)
         IN  IF ids_to_delete # {} /\ delete_fails
             THEN [path |-> "none", result |-> FALSE, store |-> S]
             ELSE [path |-> "fallback", result |-> TRUE,
                   store |-> DeleteIds(S, ids_to_delete)]

\* A delete without fallback: False as soon as the direct delete raises.
DeleteOutcomeNoFallback(S, chat_id, direct_fails, results, delete_fails) ==
    IF ~ direct_fails
    THEN [path |-> "direct", result |-> TRUE, store |-> DeleteWhere(S, chat_id)]
    ELSE [path |-> "none", result |-> FALSE, store |-> S]

\* The outcome of delete_chat_memories: the direct delete, or its fallback.
DeleteOutcome(S, chat_id, direct_fails, results, delete_fails) ==
    IF ~ direct_fails
    THEN [path |-> "direct", result |-> TRUE, store |-> DeleteWhere(S, chat_id)]
    ELSE DeleteFallback(S, chat_id, results, delete_fails)

delete_chat_memories ==
    /\ last = Idle
    /\ \E results \in Answers(store, N_RESULTS) :
        \E chat_id \in Chats, direct_fails \in BOOLEAN, delete_fails \in BOOLEAN :
            LET out == DeleteOutcome(store, chat_id, direct_fails, results, delete_fails)
            IN  /\ store' = out.store
                /\ last' = [op |-> "delete", chat_id |-> chat_id, path |-> out.path,
                            direct_failed |-> direct_fails,
                            query_failed |-> direct_fails /\ ~ results.ok,
                            delete_failed |->
                                /\ direct_fails /\ results.ok /\ delete_fails
                                /\ IdsToDelete(results.docs, chat_id) # {},
                            calls |-> DeleteCalls(chat_id, direct_fails, results),
                            raised |-> FALSE, result |-> out.result,
                            had |-> Cardinality(store)
                                    - Cardinality(DeleteWhere(store, chat_id))]
                /\ UNCHANGED clock

\* ------------------------------------------------------------ Python str
\* s[i - 1], as a string of one character.
Char(s, i) == SubSeq(s, i, i)

\* s.startswith(prefix), s.endswith(suffix), sub in s
StartsWith(s, prefix) == Len(s) >= Len(prefix) /\ SubSeq(s, 1, Len(prefix)) = prefix
EndsWith(s, suffix) ==
    Len(s) >= Len(suffix) /\ SubSeq(s, Len(s) - Len(suffix) + 1, Len(s)) = suffix
Contains(s, sub) ==
    \E i \in 1..(Len(s) - Len(sub) + 1) : SubSeq(s, i, i + Len(sub) - 1) = sub

\* The characters str.strip() removes, among those the texts are made of.
Whitespace == {" ", "\t", "\r", "\n"}

\* s.strip()
RECURSIVE Strip(_)
Strip(s) ==
    IF s = "" THEN s
    ELSE IF Char(s, 1) \in Whitespace THEN Strip(SubSeq(s, 2, Len(s)))
    ELSE IF Char(s, Len(s)) \in Whitespace THEN Strip(SubSeq(s, 1, Len(s) - 1))
    ELSE s

UpperCase == "ABCDEFGHIJKLMNOPQRSTUVWXYZ"
LowerCase == "abcdefghijklmnopqrstuvwxyz"

\* s.lower(), on the letters A to Z.
RECURSIVE Lower(_)
Lower(s) ==
    IF s = "" THEN s
    ELSE LET c == Char(s, 1)
             at == {i \in 1..Len(UpperCase) : Char(UpperCase, i) = c}
         IN  (IF at = {} THEN c ELSE Char(LowerCase, CHOOSE i \in at : TRUE))
             \o Lower(SubSeq(s, 2, Len(s)))

\* s.split('\n'): the lines of s, [''] for the empty string.
RECURSIVE Split(_)
Split(s) ==
    LET at == {i \in 1..Len(s) : Char(s, i) = "\n"}
    IN  IF at = {} THEN <<s>>
        ELSE LET first == CHOOSE i \in at : \A j \in at : i <= j
             IN  <<SubSeq(s, 1, first - 1)>> \o Split(SubSeq(s, first + 1, Len(s)))

\* "\n".join(parts)
RECURSIVE Join(_)
Join(parts) ==
    IF parts = <<>> THEN ""
    ELSE IF Len(parts) = 1 THEN parts[1]
    ELSE parts[1] \o "\n" \o Join(Tail(parts))

\* --------------------------------------------------- StoryGenerator helpers
\* A context builder without the test for the empty list.
NoMemoriesJoined == Join(<<>>)

\* if not memories: return "No previous context available."
NoMemories == "No previous context available."

\* f"Memory {i} [{role}, {memory_type}]: {content}"
ContextPart(i, memory) ==
    LET role == IF "role" \in DOMAIN memory.metadata
                THEN memory.metadata.role ELSE "unknown"
        memory_type == IF "memory_type" \in DOMAIN memory.metadata
                       THEN memory.metadata.memory_type ELSE "general"
    IN  "Memory " \o ToString(i) \o " [" \o role \o ", " \o memory_type \o "]: "
        \o memory.page_content

\* A builder that lists the memories from the last one to the first.
BuildMemoryContextReversed(memories) ==
    IF memories = <<>> THEN NoMemories
    ELSE Join([i \in 1..Len(memories) |->
                  ContextPart(i, memories[Len(memories) + 1 - i])])

\* _build_memory_context(memories)
BuildMemoryContext(memories) ==
    IF memories = <<>> THEN NoMemories
    ELSE Join([i \in 1..Len(memories) |-> ContextPart(i, memories[i])])

\* The keywords of a key story event.
Keywords == {"meets", "finds", "discovers", "enters", "defeats", "encounters"}

\* line.startswith('**') and line.endswith('**')
IsHeading(line) == StartsWith(line, "**") /\ EndsWith(line, "**")

\* any(keyword in line.lower() for keyword in [...])
HasKeyword(line) == \E keyword \in Keywords : Contains(Lower(line), keyword)

\* Two independent tests: a heading that holds a keyword gives both records.
ExtractLineBoth(line) ==
    (IF IsHeading(line)
     THEN <<[memory_type |-> "lore", description |-> "Story element: " \o line]>>
     ELSE <<>>)
    \o (IF HasKeyword(line)
        THEN <<[memory_type |-> "event", description |-> "Story event: " \o line]>>
        ELSE <<>>)

\* The if / elif of the loop body of _extract_key_events on a stripped line.
ExtractLine(line) ==
    IF IsHeading(line)
    THEN <<[memory_type |-> "lore", description |-> "Story element: " \o line]>>
    ELSE IF HasKeyword(line)
    THEN <<[memory_type |-> "event", description |-> "Story event: " \o line]>>
    ELSE <<>>

\* The loop of _extract_key_events over lines[i..].
RECURSIVE ExtractLines(_, _, _)
ExtractLines(lines, i, events) ==
    IF i > Len(lines) THEN events
    ELSE ExtractLines(lines, i + 1, events \o ExtractLine(Strip(lines[i])))

\* A user branch that treats the text as the assistant's: one action a line.
ExtractKeyEventsPerLine(content, role) ==
    IF role = "user"
    THEN [i \in 1..Len(Split(content)) |->
             [memory_type |-> "action",
              description |-> "Player action: " \o Strip(Split(content)[i])]]
    ELSE IF role = "assistant"
    THEN ExtractLines(Split(content), 1, <<>>)
    ELSE <<>>

\* _extract_key_events(content, role)
ExtractKeyEvents(content, role) ==
    IF role = "user"
    THEN <<[memory_type |-> "action", description |-> "Player action: " \o content]>>
    ELSE IF role = "assistant"
    THEN ExtractLines(Split(content), 1, <<>>)
    ELSE <<>>

\* The lines the texts of the direct calls are made of.
Lines == {"", "Quiet road.", "Kael finds a key.", "KAEL ENTERS", "She reenters.",
          "**The Gate**", " \t**Dawn**\r", "**Kael meets Mira**", "**",
          "**Note: he discovers"}

\* The texts of at most MaxLines lines.
RECURSIVE TextsOf(_)
TextsOf(n) ==
    IF n = 1 THEN Lines
    ELSE TextsOf(n - 1) \cup {t \o "\n" \o l : t \in TextsOf(n - 1), l \in Lines}

\* A call of _extract_key_events returns.
extract_key_events ==
    /\ call.fn = "_extract_key_events"
    /\ call.result = Absent
    /\ call' = [call EXCEPT !.result = Given(ExtractKeyEvents(call.content, call.role))]
    /\ UNCHANGED <<store, clock, last, story, chats, rate_limiter, images>>

\* ----------------------------------------------------------- continue_story
\* k and memory_types of the retrieve_memories call, limit of the
\* get_recent_memories call.
STORY_K == 5
STORY_MEMORY_TYPES == <<"action", "event", "lore", "npc", "location">>
STORY_LIMIT == 6

\* The player's actions and the texts the language model generates.
UserActions == {"", "go north"}
Responses == {"Quiet road.", "**The Gate**\nKael enters."}

\* An order that generates before the player's action is stored.
StepsGenerateFirst ==
    <<"agenerate", "store_action", "retrieve_memories", "get_recent_memories",
      "store_response", "store_events">>

\* The awaited calls of continue_story, in the order of the source.
Steps ==
    <<"store_action", "retrieve_memories", "get_recent_memories", "agenerate",
      "store_response", "store_events">>

\* The step that follows `step`; after the last one, the return statement.
After(step) ==
    LET i == CHOOSE j \in 1..Len(Steps) : Steps[j] = step
    IN  IF i = Len(Steps) THEN "return" ELSE Steps[i + 1]

\* The run once `step` is over: on the way into the loop over the events,
\* _extract_key_events gives them; without events the loop is passed.
Proceed(st, step) ==
    IF After(step) # "store_events" THEN [st EXCEPT !.pc = After(step)]
    ELSE LET events == ExtractKeyEvents(st.story_response, "assistant")
         IN  IF events = <<>> THEN [st EXCEPT !.pc = After("store_events")]
             ELSE [st EXCEPT !.pc = "store_events", !.events = events]

\* except Exception as e: return f"Error continuing story: {str(e)}"
Failed(st, e) ==
    [st EXCEPT !.pc = "returned", !.result = Given("Error continuing story: " \o e)]

\* A store_memory call of continue_story, without additional_metadata.
StoryStore(st, content, role, memory_type, fails) ==
    StoreOutcome(store,
                 [id |-> MemoryId(st.chat_id, role, clock),
                  page_content |-> content,
                  metadata |-> Metadata(st.user_id, st.chat_id, role, memory_type,
                                        clock, Absent)],
                 fails)

\* The collection has room for the record, or the call fails.
HasRoom(st, role, fails) ==
    fails \/ MemoryId(st.chat_id, role, clock) \in Ids(store)
          \/ Cardinality(store) < MaxRecords

\* continue_story is called for a chat, by the chat's owner.
continue_story ==
    /\ story.pc \in {"idle", "returned"}
    /\ \E chat_id \in Chats, user_action \in UserActions :
        story' = [pc |-> Steps[1], user_id |-> Owner(chat_id), chat_id |-> chat_id,
                  user_action |-> user_action,
                  relevant_memories |-> <<>>, retrieve_failed |-> FALSE,
                  recent_memories |-> <<>>, recent_path |-> "none",
                  memory_context |-> "", story_response |-> "", events |-> <<>>,
                  steps |-> <<>>, result |-> Absent]
    /\ UNCHANGED <<store, clock, last, call, chats, rate_limiter, images>>

\* Store user action in memory first.
StoreAction ==
    /\ story.pc = "store_action"
    /\ \E fails \in BOOLEAN :
        LET out == StoryStore(story, story.user_action, "user", "action", fails)
            st == [story EXCEPT !.steps = Append(@, "store_action")]
        IN  /\ HasRoom(story, "user", fails)
            /\ store' = out.store
            /\ story' = IF out.raised THEN Failed(st, "store_memory")
                        ELSE Proceed(st, "store_action")
    /\ UNCHANGED <<clock, last, call, chats, rate_limiter, images>>

\* Retrieve relevant memories based on user action.
RetrieveRelevant ==
    /\ story.pc = "retrieve_memories"
    /\ \E answer \in Answers(store, SimilaritySearch(STORY_K).k) :
        LET out == RetrieveOutcome(answer, story.user_id, story.chat_id, STORY_K,
                                   Given(STORY_MEMORY_TYPES), Absent)
            st == [story EXCEPT !.steps = Append(@, "retrieve_memories"),
                                !.retrieve_failed = ~ answer.ok,
                                !.relevant_memories = out.result]
        IN  story' = IF out.raised THEN Failed(st, "retrieve_memories")
                     ELSE Proceed(st, "retrieve_memories")
    /\ UNCHANGED <<store, clock, last, call, chats, rate_limiter, images>>

\* Get recent conversation context.
GetRecent ==
    /\ story.pc = "get_recent_memories"
    /\ \E answer \in Answers(store, STORY_LIMIT * RECENT_FETCH) :
        \E all_results \in IF answer.ok THEN {answer}
                           ELSE Answers(store, Cardinality(store)) :
            LET out == RecentOutcome(answer, all_results, story.user_id,
                                     story.chat_id, STORY_LIMIT)
                st == [story EXCEPT !.steps = Append(@, "get_recent_memories"),
                                    !.recent_path = out.path,
                                    !.recent_memories = out.result]
            IN  story' = IF out.raised THEN Failed(st, "get_recent_memories")
                         ELSE Proceed(st, "get_recent_memories")
    /\ UNCHANGED <<store, clock, last, call, chats, rate_limiter, images>>

\* Build memory context, then generate response: the language model answers
\* with a text, or the call raises.
Generate ==
    /\ story.pc = "agenerate"
    /\ \E fails \in BOOLEAN, text \in Responses :
        LET st == [story EXCEPT
                       !.steps = Append(@, "agenerate"),
                       !.memory_context = BuildMemoryContext(story.relevant_memories)]
        IN  story' = IF fails THEN Failed(st, "agenerate")
                     ELSE Proceed([st EXCEPT !.story_response = text], "agenerate")
    /\ UNCHANGED <<store, clock, last, call, chats, rate_limiter, images>>

\* Store AI response in memory.
StoreResponse ==
    /\ story.pc = "store_response"
    /\ \E fails \in BOOLEAN :
        LET out == StoryStore(story, story.story_response, "assistant", "response", fails)
            st == [story EXCEPT !.steps = Append(@, "store_response")]
        IN  /\ HasRoom(story, "assistant", fails)
            /\ store' = out.store
            /\ story' = IF out.raised THEN Failed(st, "store_memory")
                        ELSE Proceed(st, "store_response")
    /\ UNCHANGED <<clock, last, call, chats, rate_limiter, images>>

\* Store the next key event of the response.
StoreEvent ==
    /\ story.pc = "store_events"
    /\ \E fails \in BOOLEAN :
        LET event == Head(story.events)
            out == StoryStore(story, event.description, "assistant",
                              event.memory_type, fails)
            st == [story EXCEPT !.steps = Append(@, "store_event"),
                                !.events = Tail(@)]
        IN  /\ HasRoom(story, "assistant", fails)
            /\ store' = out.store
            /\ story' = IF out.raised THEN Failed(st, "store_memory")
                        ELSE IF st.events = <<>>
                        THEN [st EXCEPT !.pc = After("store_events")]
                        ELSE st
    /\ UNCHANGED <<clock, last, call, chats, rate_limiter, images>>

\* return story_response
ReturnResponse ==
    /\ story.pc = "return"
    /\ story' = [story EXCEPT !.pc = "returned", !.result = Given(story.story_response)]
    /\ UNCHANGED <<store, clock, last, call, chats, rate_limiter, images>>

\* ------------------------------------------- delete_session, delete account
\* No session has a row yet.
NoImages == [chat_id \in Chats |-> [world |-> "none", character |-> "none", task |-> "none"]]

\* The image columns of the row save_chat_to_db inserts; no image task yet.
NewRow == [world |-> "pending", character |-> "pending", task |-> "none"]

\* save_chat_to_db: a new session gets its row; the id is a fresh uuid4.
save_chat_to_db ==
    /\ last = Idle
    /\ \E session_id \in Chats :
        /\ chats[session_id] = "free"
        /\ chats' = [chats EXCEPT ![session_id] = "row"]
        /\ images' = [images EXCEPT ![session_id] = NewRow]
    /\ UNCHANGED <<store, clock, last, call, story, rate_limiter>>

\* A wrapper that lets the exception through.
CleanupFailedRaises(S) == [raised |-> TRUE, result |-> FALSE, store |-> S]

\* cleanup_chat_memories, except Exception: log and return False.
CleanupFailed(S) == [raised |-> FALSE, result |-> FALSE, store |-> S]

\* cleanup_chat_memories(chat_id): what delete_chat_memories returns, or
\* False should an exception leave that call (escapes).
CleanupChatMemories(S, chat_id, escapes, direct_fails, results, delete_fails) ==
    IF escapes THEN CleanupFailed(S)
    ELSE LET out == DeleteOutcome(S, chat_id, direct_fails, results, delete_fails)
         IN  [raised |-> FALSE, result |-> out.result, store |-> out.store]

\* Every outcome cleanup_chat_memories(chat_id) can have on collection S.
Cleanups(S, chat_id) ==
    {CleanupChatMemories(S, chat_id, escapes, direct_fails, results, delete_fails) :
        escapes \in BOOLEAN, direct_fails \in BOOLEAN, delete_fails \in BOOLEAN,
        results \in Answers(S, N_RESULTS)}

\* delete_chat(chat_id): True and the row is gone, or False when a delete of
\* the database raises.
DeleteChat(rows, chat_id, db_fails) ==
    IF db_fails THEN [result |-> FALSE, chats |-> rows]
    ELSE [result |-> TRUE,
          chats |-> [rows EXCEPT ![chat_id] = IF @ = "row" THEN "gone" ELSE @]]

\* check_chat_ownership(chat_id, user_id): False when the select raises.
CheckChatOwnership(rows, chat_id, user_id, select_fails) ==
    ~ select_fails /\ rows[chat_id] = "row" /\ Owner(chat_id) = user_id

\* The handler of DELETE /api/story/session/{session_id}.
DeleteSession(rows, S, session_id, user_id, select_fails, cleanup, db_fails) ==
    IF ~ CheckChatOwnership(rows, session_id, user_id, select_fails)
    THEN [status |-> 404, chat_exists |-> FALSE, memory_failed |-> FALSE,
          delete_chat_called |-> FALSE, db_failed |-> FALSE,
          store |-> S, chats |-> rows]
    ELSE IF cleanup.raised
    THEN [status |-> 500, chat_exists |-> TRUE, memory_failed |-> TRUE,
          delete_chat_called |-> FALSE, db_failed |-> FALSE,
          store |-> cleanup.store, chats |-> rows]
    ELSE LET success == DeleteChat(rows, session_id, db_fails)
         IN  [status |-> IF success.result THEN 200 ELSE 500,
              chat_exists |-> TRUE, memory_failed |-> ~ cleanup.result,
              delete_chat_called |-> TRUE, db_failed |-> ~ success.result,
              store |-> cleanup.store, chats |-> success.chats]

delete_session ==
    /\ last = Idle
    /\ \E session_id \in Chats, user_id \in Users, select_fails \in BOOLEAN,
          db_fails \in BOOLEAN :
        \E cleanup \in Cleanups(store, session_id) :
            LET out == DeleteSession(chats, store, session_id, user_id,
                                     select_fails, cleanup, db_fails)
            IN  /\ store' = out.store
                /\ chats' = out.chats
                /\ last' = [op |-> "delete_session", session_id |-> session_id,
                            user_id |-> user_id, chat_exists |-> out.chat_exists,
                            memory_failed |-> out.memory_failed,
                            delete_chat_called |-> out.delete_chat_called,
                            db_failed |-> out.db_failed, status |-> out.status]
    /\ UNCHANGED <<clock, call, story, rate_limiter, images>>

\* get_user_chats(user_id): the ids of the user's rows, [] when the select
\* raises.  A user of the model owns one chat, so the loops over the
\* sessions run once at most.
SessionIds(rows, user_id, select_fails) ==
    IF select_fails THEN {}
    ELSE {chat_id \in Chats : rows[chat_id] = "row" /\ Owner(chat_id) = user_id}

\* Step 4 of delete_user_account: the delete of the user's rows, or the
\* exception collected in db_deletion_errors.
DeleteUserChats(rows, user_id, db_fails) ==
    IF db_fails THEN rows
    ELSE [chat_id \in Chats |->
             IF rows[chat_id] = "row" /\ Owner(chat_id) = user_id
             THEN "gone" ELSE rows[chat_id]]

\* The handler of DELETE /api/user/delete-account: the images, the memories
\* and the rows are deleted in turn, every exception is collected, and the
\* answer is success.
delete_user_account ==
    /\ last = Idle
    /\ \E user_id \in Users, select_fails \in BOOLEAN, s3_fails \in BOOLEAN,
          db_fails \in BOOLEAN :
        LET session_ids == SessionIds(chats, user_id, select_fails)
            session_id == CHOOSE chat_id \in session_ids : TRUE
        IN  \E cleanup \in IF session_ids = {} THEN {CleanupFailed(store)}
                            ELSE Cleanups(store, session_id) :
            LET memory_errors == IF session_ids # {} /\ (cleanup.raised \/ ~ cleanup.result)
                                 THEN 1 ELSE 0
                s3_errors == IF session_ids # {} /\ s3_fails THEN 1 ELSE 0
                database_errors == IF db_fails THEN 1 ELSE 0
            IN  /\ store' = IF session_ids = {} THEN store ELSE cleanup.store
                /\ chats' = DeleteUserChats(chats, user_id, db_fails)
                /\ last' = [op |-> "delete_user_account", user_id |-> user_id,
                            sessions_processed |-> Cardinality(session_ids),
                            memory_errors |-> memory_errors,
                            db_failed |-> db_fails,
                            total_errors |-> s3_errors + memory_errors + database_errors,
                            success |-> TRUE, status |-> 200]
    /\ UNCHANGED <<clock, call, story, rate_limiter, images>>

\* ------------------------------------------------------ SimpleRateLimiter
\* The endpoints under @rate_limit and their (max_requests, window_seconds).
LIMITS ==
    [initialize_story |-> [max_requests |-> MaxRequests, window_seconds |-> WindowSeconds],
     regenerate_images |-> [max_requests |-> MaxRequests - 1, window_seconds |-> WindowSeconds]]

\* f"{func.__name__}:{user_id}"
RateKey(func, user_id) == func \o ":" \o user_id

\* The requests that arrive: who calls which endpoint (None: the wrapper
\* finds no user_id).
Requests == {<<"initialize_story", "u1">>, <<"regenerate_images", "u2">>,
             <<"regenerate_images", None>>}

RateKeys == {RateKey(r[1], r[2]) : r \in {q \in Requests : q[2] # None}}

\* defaultdict(deque): a key never seen reads as the empty deque.
NoRequests == [requests |-> [key \in RateKeys |-> <<>>],
               granted |-> [key \in RateKeys |-> <<>>]]

ExpiredInclusive(t, window_start) == t <= window_start

\* requests[key][0] < window_start
Expired(t, window_start) == t < window_start

\* while requests[key] and requests[key][0] < window_start: popleft()
RECURSIVE CleanOld(_, _)
CleanOld(deque, window_start) ==
    IF deque # <<>> /\ Expired(Head(deque), window_start)
    THEN CleanOld(Tail(deque), window_start)
    ELSE deque

\* is_allowed(key, max_requests, window_seconds) at time now: the deques it
\* leaves and what it returns.
IsAllowed(requests, key, max_requests, window_seconds, now) ==
    LET window_start == now - window_seconds
        cleaned == CleanOld(requests[key], window_start)
    IN  IF Len(cleaned) < max_requests
        THEN [requests |-> [requests EXCEPT ![key] = Append(cleaned, now)], result |-> TRUE]
        ELSE [requests |-> [requests EXCEPT ![key] = cleaned], result |-> FALSE]

\* A request reaches a limited endpoint: the wrapper of rate_limit finds
\* user_id among the keyword arguments, asks the limiter when it is truthy,
\* and answers 429 or runs the endpoint.
rate_limit ==
    \E request \in Requests :
        LET func == request[1]
            user_id == request[2]
        IN
        /\ IF user_id # None
           THEN LET key == RateKey(func, user_id)
                    out == IsAllowed(rate_limiter.requests, key, LIMITS[func].max_requests,
                                     LIMITS[func].window_seconds, clock)
                IN  /\ rate_limiter' =
                           [requests |-> out.requests,
                            granted |-> IF out.result
                                        THEN [rate_limiter.granted EXCEPT
                                                  ![key] = Append(@, clock)]
                                        ELSE rate_limiter.granted]
                    /\ last' = [op |-> "rate_limit", func |-> func, user_id |-> user_id,
                                key |-> key, asked |-> TRUE, result |-> out.result,
                                status |-> IF out.result THEN 200 ELSE 429]
           ELSE /\ rate_limiter' = rate_limiter
                /\ last' = [op |-> "rate_limit", func |-> func, user_id |-> user_id,
                            key |-> None, asked |-> FALSE, result |-> TRUE, status |-> 200]
        /\ UNCHANGED <<store, clock, call, story, chats, images>>

\* time.time() moves on between two requests.
Elapse ==
    /\ clock < MaxNow
    /\ clock' = clock + 1
    /\ UNCHANGED <<store, last, call, story, chats, rate_limiter, images>>

\* --------------------------------------------------------------- images
ImageTypes == {"world", "character"}

\* The variants create_image_variants builds, in the order of the dict.
Variants(image_type) ==
    IF image_type = "world" THEN <<"master", "web", "thumb">>
    ELSE <<"master", "web", "avatar">>

\* What generate_image returns: None (an answer other than 200, or an
\* exception), the empty body of an answer 200, an image, or bytes of an
\* answer 200 that are no image.
ImageBytes == {None, "", "png", "junk"}

\* if world_image_bytes:
HasBytes(image_bytes) == image_bytes # None /\ image_bytes # ""

\* create_image_variants: the variants of an image Pillow opens; {} when
\* Image.open or a conversion raises.
CreateImageVariants(image_bytes, image_type) ==
    IF image_bytes = "png" THEN Variants(image_type) ELSE <<>>

\* The upload loop: the variants are put in turn, the first upload_to_s3
\* that returns False ends the loop with success False.  uploads_ok is the
\* number of puts the bucket accepts before it refuses one.
UploadAll(variants, uploads_ok) ==
    [success |-> uploads_ok >= Len(variants),
     put |-> {variants[i] : i \in 1..Min(uploads_ok, Len(variants))}]

\* One of the two blocks of generate_and_store_images: results[image_type]
\* and the objects put in the bucket.
StoreImage(image_type, image_bytes, uploads_ok) ==
    IF HasBytes(image_bytes)
    THEN LET uploaded == UploadAll(CreateImageVariants(image_bytes, image_type), uploads_ok)
         IN  [result |-> uploaded.success,
              put |-> {<<image_type, variant>> : variant \in uploaded.put}]
    ELSE [result |-> FALSE, put |-> {}]

\* Every outcome a block of generate_and_store_images can have.
StoreImages(image_type) ==
    {StoreImage(image_type, image_bytes, uploads_ok) :
        image_bytes \in ImageBytes, uploads_ok \in 0..Len(Variants(image_type))}

\* update_image_status: the column is written, or the exception of the
\* database is logged and the row stays as it was.
UpdateImageStatus(row, image_type, status, db_fails) ==
    IF db_fails THEN row ELSE [row EXCEPT ![image_type] = status]

\* initialize_story, from save_chat_to_db on: the row is inserted and the
\* image task is queued.
initialize_story ==
    /\ last = Idle
    /\ \E session_id \in Chats :
        /\ chats[session_id] = "free"
        /\ chats' = [chats EXCEPT ![session_id] = "row"]
        /\ images' = [images EXCEPT ![session_id] = [NewRow EXCEPT !.task = "queued"]]
    /\ UNCHANGED <<store, clock, last, call, story, rate_limiter>>

\* The handler of POST /api/images/regenerate: 404 without the chat or its
\* first story, else both statuses are reset and the image task is queued.
\* One image task per session is followed at a time.
regenerate_images ==
    /\ last = Idle
    /\ \E chat_id \in Chats, user_id \in Users, story_found \in BOOLEAN,
          world_db_fails \in BOOLEAN, character_db_fails \in BOOLEAN :
        /\ images[chat_id].task # "queued"
        /\ IF chats[chat_id] = "row" /\ Owner(chat_id) = user_id /\ story_found
           THEN /\ images' =
                       [images EXCEPT ![chat_id] =
                           [UpdateImageStatus(
                                UpdateImageStatus(@, "world", "pending", world_db_fails),
                                "character", "pending", character_db_fails)
                            EXCEPT !.task = "queued"]]
                /\ last' = [op |-> "regenerate_images", chat_id |-> chat_id,
                            user_id |-> user_id, status |-> 200]
           ELSE /\ images' = images
                /\ last' = [op |-> "regenerate_images", chat_id |-> chat_id,
                            user_id |-> user_id, status |-> 404]
    /\ UNCHANGED <<store, clock, call, story, chats, rate_limiter>>

\* The background task: generate_and_store_images, then one
\* update_image_status for each image type, "ready" when results[type] is
\* true and "failed" otherwise.
generate_images_background ==
    /\ last = Idle
    /\ \E chat_id \in Chats :
        /\ images[chat_id].task = "queued"
        /\ \E world \in StoreImages("world"), character \in StoreImages("character"),
              world_db_fails \in BOOLEAN, character_db_fails \in BOOLEAN :
            /\ images' =
                   [images EXCEPT ![chat_id] =
                       [UpdateImageStatus(
                            UpdateImageStatus(@, "world",
                                IF world.result THEN "ready" ELSE "failed", world_db_fails),
                            "character",
                            IF character.result THEN "ready" ELSE "failed",
                            character_db_fails)
                        EXCEPT !.task = "done"]]
            /\ last' = [op |-> "generate_images_background", chat_id |-> chat_id,
                        results |-> [world |-> world.result, character |-> character.result],
                        put |-> world.put \cup character.put,
                        updated |-> [world |-> ~ world_db_fails,
                                     character |-> ~ character_db_fails]]
    /\ UNCHANGED <<store, clock, call, story, chats, rate_limiter>>

\* ------------------------------------------------------------------ callers
\* The caller has read the outcome of its call.
Return ==
    /\ last # Idle
    /\ last' = Idle
    /\ UNCHANGED <<store, clock>>

\* The wall clock moves on between two calls.
Tick ==
    /\ last = Idle
    /\ clock < MaxClock
    /\ clock' = clock + 1
    /\ UNCHANGED <<store, last>>

Init ==
    /\ store = {}
    /\ clock = 0
    /\ last = Idle
    /\ call = NoCall
    /\ story = NoStory
    /\ chats = [chat_id \in Chats |-> "free"]
    /\ rate_limiter = NoRequests
    /\ images = NoImages

Next ==
    /\ \/ store_memory
       \/ retrieve_memories
       \/ get_recent_memories
       \/ delete_chat_memories
       \/ Return
       \/ Tick
    /\ UNCHANGED <<call, story, chats, rate_limiter, images>>

Spec == Init /\ [][Next]_vars

\* The record store_memory writes for a chat's owner, without
\* additional_metadata.
Stored(chat_id, role, now, text) ==
    [id |-> MemoryId(chat_id, role, now),
     page_content |-> text.content,
     metadata |-> Metadata(Owner(chat_id), chat_id, role, text.memory_type, now, Absent)]

\* The collections of at most MaxPool records that store_memory calls of two
\* consecutive seconds leave behind.
Collections ==
    LET pool == {Stored(chat_id, role, now, [content |-> "X", memory_type |-> "action"]) :
                     chat_id \in Chats, role \in Roles, now \in 0..1}
    IN  {S \in SUBSET pool : Cardinality(S) <= MaxPool}

\* get_recent_memories read on its own, on a collection larger than the
\* answer of its similarity search.
InitRecent ==
    /\ store \in Collections
    /\ clock = 1
    /\ last = Idle
    /\ call = NoCall
    /\ story = NoStory
    /\ chats = [chat_id \in Chats |-> "row"]
    /\ rate_limiter = NoRequests
    /\ images = NoImages

NextRecent ==
    \/ get_recent_memories /\ UNCHANGED <<call, story, chats, rate_limiter, images>>
    \/ Return /\ UNCHANGED <<call, story, chats, rate_limiter, images>>

SpecRecent == InitRecent /\ [][NextRecent]_vars

\* The helper _extract_key_events called on a text, under a role.
InitExtract ==
    /\ store = {}
    /\ clock = 0
    /\ last = Idle
    /\ \E content \in TextsOf(MaxLines), role \in {"user", "assistant", "system"} :
           call = [fn |-> "_extract_key_events", content |-> content, role |-> role,
                   result |-> Absent]
    /\ story = NoStory
    /\ chats = [chat_id \in Chats |-> "free"]
    /\ rate_limiter = NoRequests
    /\ images = NoImages

NextExtract == extract_key_events

SpecExtract == InitExtract /\ [][NextExtract]_vars

\* The turns of a story: continue_story called again and again, each run
\* step by step, the wall clock moving on between the steps.
NextStory ==
    \/ continue_story
    \/ StoreAction
    \/ RetrieveRelevant
    \/ GetRecent
    \/ Generate
    \/ StoreResponse
    \/ StoreEvent
    \/ ReturnResponse
    \/ Tick /\ UNCHANGED <<call, story, chats, rate_limiter, images>>

SpecStory == Init /\ [][NextStory]_vars

\* The sessions of the application: rows are created, the story stores
\* memories for the sessions that have a row, sessions and accounts are
\* deleted.
NextDelete ==
    \/ save_chat_to_db
    \/ /\ store_memory
       /\ chats[last'.chat_id] = "row"
       /\ last'.additional_metadata = Absent
       /\ UNCHANGED <<call, story, chats, rate_limiter, images>>
    \/ delete_session
    \/ delete_user_account
    \/ Return /\ UNCHANGED <<call, story, chats, rate_limiter, images>>
    \/ Tick /\ UNCHANGED <<call, story, chats, rate_limiter, images>>

SpecDelete == Init /\ [][NextDelete]_vars

\* The requests to the limited endpoints, time passing between them.
NextLimiter ==
    \/ rate_limit
    \/ Elapse

SpecLimiter == Init /\ [][NextLimiter]_vars

\* The images of the sessions: stories are started, their image tasks run,
\* images are asked for again.
NextImages ==
    \/ initialize_story
    \/ regenerate_images
    \/ generate_images_background
    \/ Return /\ UNCHANGED <<call, story, chats, rate_limiter, images>>

SpecImages == Init /\ [][NextImages]_vars

\* ==================================================================== claims
\* The records of S in the scope (user_id, chat_id).
InScope(S, user_id, chat_id) ==
    {e \in S : Get(e.metadata, "user_id") = user_id /\ Get(e.metadata, "chat_id") = chat_id}

\* The results of the last call, as a set.
Results == {last.result[i] : i \in 1..Len(last.result)}

\* C1 - Scope isolation: every record retrieve_memories or
\* get_recent_memories returns (on the vectorstore path and on the fallback
\* path) carries the user_id and the chat_id of the query; no record of
\* another scope is in the result.
C1_ScopeIsolation ==
    last.op \in {"retrieve", "recent"} =>
        /\ \A d \in Results :
            /\ Get(d.metadata, "user_id") = last.user_id
            /\ Get(d.metadata, "chat_id") = last.chat_id
        /\ \A e \in store \ InScope(store, last.user_id, last.chat_id) :
            Document(e) \notin Results

\* A fallback read that returns a record while the collection holds a record
\* of the same chat under another user.
C1_Witness ==
    /\ last.op = "recent"
    /\ last.path = "fallback"
    /\ Results # {}
    /\ \E e \in store : /\ Get(e.metadata, "chat_id") = last.chat_id
                        /\ Get(e.metadata, "user_id") # last.user_id

\* C2 - k-bound: retrieve_memories returns at most k records.
C2_KBound == last.op = "retrieve" => Len(last.result) <= last.k

\* A retrieval cut at k: more records of the collection pass the filter than
\* the k returned.
C2_Witness ==
    /\ last.op = "retrieve"
    /\ Len(last.result) = last.k
    /\ Cardinality({e \in InScope(store, last.user_id, last.chat_id) :
                        /\ ~ KindRejected(e.metadata, last.memory_types)
                        /\ ~ RoleRejected(e.metadata, last.include_roles)}) > last.k

\* C3 as stated - whenever an allow-list is given (is not None), every record
\* returned has its memory_type in memory_types, its role in include_roles.
C3_FilterWhenGiven ==
    last.op = "retrieve" =>
        \A d \in Results :
            /\ last.memory_types # Absent =>
                   InList(Get(d.metadata, "memory_type"), last.memory_types[1])
            /\ last.include_roles # Absent =>
                   InList(Get(d.metadata, "role"), last.include_roles[1])

\* C3 - Filter correctness, amended: whatever records the index answers
\* with, every record returned is in the scope, has its memory_type in
\* memory_types when that list is given and not empty, and its role in
\* include_roles when that list is given and not empty.
C3_FilterWhenNonEmpty ==
    last.op = "retrieve" =>
        \A d \in Results :
            /\ Get(d.metadata, "user_id") = last.user_id
            /\ Get(d.metadata, "chat_id") = last.chat_id
            /\ (last.memory_types # Absent /\ last.memory_types[1] # <<>>) =>
                   InList(Get(d.metadata, "memory_type"), last.memory_types[1])
            /\ (last.include_roles # Absent /\ last.include_roles[1] # <<>>) =>
                   InList(Get(d.metadata, "role"), last.include_roles[1])

\* A retrieval under both allow-lists that returns a record and leaves out a
\* record of the scope with another memory type.
C3_Witness ==
    /\ last.op = "retrieve"
    /\ last.memory_types = Given(<<"action">>)
    /\ last.include_roles = Given(<<"user">>)
    /\ Results # {}
    /\ \E e \in InScope(store, last.user_id, last.chat_id) :
           Get(e.metadata, "memory_type") = "lore"

\* C4 - Degrade-not-fail: when the similarity search (embedding or index)
\* fails, retrieve_memories returns the empty list, raises nothing and
\* leaves the collection as it was.
C4_DegradeNotFail ==
    [][(last'.op = "retrieve" /\ last'.failed) =>
           (~ last'.raised /\ last'.result = <<>> /\ store' = store)]_vars

\* A failed retrieval for a scope that holds records.
C4_Witness ==
    /\ last.op = "retrieve"
    /\ last.failed
    /\ InScope(store, last.user_id, last.chat_id) # {}

\* int(metadata["timestamp"]): the second a record was created in.
CreatedAt(e) == CHOOSE t \in 0..MaxClock : ToString(t) = Get(e.metadata, "timestamp")

\* a comes before b in the order created_at descending, id descending.  Two
\* records of one chat created in the same second differ in the role part of
\* the id, and "user" sorts after "assistant".
Newer(a, b) ==
    \/ CreatedAt(a) > CreatedAt(b)
    \/ /\ CreatedAt(a) = CreatedAt(b)
       /\ Get(a.metadata, "role") = "user"
       /\ Get(b.metadata, "role") = "assistant"

\* The limit most recent records of a scope, most recent first.
MostRecent(S, user_id, chat_id, limit) ==
    LET scope == InScope(S, user_id, chat_id)
        rank(e) == Cardinality({o \in scope : Newer(o, e)})
    IN  [i \in 1..Min(limit, Cardinality(scope)) |->
            Document(CHOOSE e \in scope : rank(e) = i - 1)]

\* C5 - Recency correctness: get_recent_memories, when the similarity search
\* answers, returns the min(limit, n) records of the scope with the largest
\* created_at, ordered by created_at descending, ties by id descending.
C5_RecencyCorrect ==
    (last.op = "recent" /\ last.path = "vectorstore") =>
        last.result = MostRecent(store, last.user_id, last.chat_id, last.limit)

\* C6 - Round-trip: store_memory(content X, user u, chat c, role user)
\* that succeeded, followed at once by get_recent_memories(u, c, 1) whose
\* similarity search answers, gives one record, of content X.
C6_RoundTrip ==
    (/\ last.op = "recent"
     /\ last.path = "vectorstore"
     /\ last.limit = 1
     /\ last.after # Absent
     /\ last.after[1].role = "user"
     /\ last.after[1].additional_metadata = Absent
     /\ last.after[1].user_id = last.user_id
     /\ last.after[1].chat_id = last.chat_id) =>
        /\ Len(last.result) = 1
        /\ last.result[1].page_content = last.after[1].content

\* C7 - ID uniqueness: a store_memory that succeeds returns an id no record
\* of the collection had, and leaves one more record in the collection.
C7_UniqueId ==
    [][(last'.op = "store" /\ ~ last'.raised) =>
           /\ last'.result \notin Ids(store)
           /\ Cardinality(store') = Cardinality(store) + 1]_vars

\* C8 - Immutability: a record of the collection stays as it is, content and
\* metadata, until a delete removes it.
C8_Immutable ==
    [][\A e \in store :
           \/ e \in store'
           \/ (last'.op = "delete" /\ e.id \notin Ids(store'))]_vars

\* C9 - Delete completeness: when delete_chat_memories returns True, no
\* record of that chat is left in the collection.
C9_DeleteComplete ==
    (last.op = "delete" /\ last.result) =>
        \A e \in store : Get(e.metadata, "chat_id") # last.chat_id

\* C10 as stated - delete_chat_memories on a chat without records returns
\* True and leaves the collection as it was.
C10_EmptyDeleteSucceeds ==
    [][(/\ last'.op = "delete"
        /\ \A e \in store : Get(e.metadata, "chat_id") # last'.chat_id) =>
           (last'.result /\ store' = store)]_vars

\* C10 - Idempotent delete, amended: delete_chat_memories on a chat without
\* records leaves the collection as it was, on every path, and returns True
\* unless both the direct delete and the fallback's query raised; so do two
\* such calls in a row.
C10_IdempotentDelete ==
    [][(/\ last'.op = "delete"
        /\ \A e \in store : Get(e.metadata, "chat_id") # last'.chat_id) =>
           /\ store' = store
           /\ last'.result = ~ (last'.direct_failed /\ last'.query_failed)]_vars

\* A delete of a chat without records that succeeded through the fallback,
\* the collection holding the records of another chat.
C10_Witness ==
    /\ last.op = "delete"
    /\ last.had = 0
    /\ last.direct_failed
    /\ last.result
    /\ store # {}

\* C12 - store_memory is all-or-nothing and its failures propagate: when the
\* embedding or the index write fails, the collection is unchanged, no id is
\* returned and the exception is raised to the caller.
C12_AllOrNothing ==
    [][(last'.op = "store" /\ last'.failed) =>
           (store' = store /\ last'.raised /\ last'.result = None)]_vars

\* A failed store_memory on a collection that holds a record.
C12_Witness ==
    /\ last.op = "store"
    /\ last.failed
    /\ store # {}

\* A call of _extract_key_events under `role` has returned.
Extracted(role) ==
    call.fn = "_extract_key_events" /\ call.role = role /\ call.result # Absent

\* C14 - _extract_key_events with role "user" returns exactly one record,
\* of memory_type action, whose description is "Player action: " followed by
\* the text as it was given, whatever the text (empty, several lines).
C14_UserAction ==
    Extracted("user") =>
        call.result[1] = <<[memory_type |-> "action",
                            description |-> "Player action: " \o call.content]>>

\* A user call on a text of two lines, the first of them a heading.
C14_Witness ==
    /\ Extracted("user")
    /\ Len(Split(call.content)) = 2
    /\ IsHeading(Split(call.content)[1])

\* The concatenation of a sequence of sequences.
RECURSIVE Flatten(_)
Flatten(seqs) == IF seqs = <<>> THEN <<>> ELSE Head(seqs) \o Flatten(Tail(seqs))

\* The stripped lines of the text of the call.
CallLines == [i \in 1..Len(Split(call.content)) |-> Strip(Split(call.content)[i])]

\* C15 as stated - with role "assistant" the memory types of the records
\* returned are, line after line: lore when the line is wrapped in "**",
\* and event when the line contains a keyword; nothing for any other line.
C15_EveryRuleFires ==
    Extracted("assistant") =>
        [i \in 1..Len(call.result[1]) |-> call.result[1][i].memory_type]
            = Flatten([i \in 1..Len(CallLines) |->
                  (IF IsHeading(CallLines[i]) THEN <<"lore">> ELSE <<>>)
                  \o (IF HasKeyword(CallLines[i]) THEN <<"event">> ELSE <<>>)])

\* C15 - line scan, amended: with role "assistant" the records returned
\* are, line after line of the text, each line stripped of the white space
\* around it: one lore record "Story element: <line>" when the line starts
\* and ends with "**"; one event record "Story event: <line>" when the line
\* is not so wrapped and its lower-cased text contains a keyword; nothing
\* for any other line.  A wrapped line gives no event record.
C15_LineScan ==
    Extracted("assistant") =>
        call.result[1]
            = Flatten([i \in 1..Len(CallLines) |->
                  CASE IsHeading(CallLines[i]) ->
                           <<[memory_type |-> "lore",
                              description |-> "Story element: " \o CallLines[i]]>>
                    [] ~ IsHeading(CallLines[i]) /\ HasKeyword(CallLines[i]) ->
                           <<[memory_type |-> "event",
                              description |-> "Story event: " \o CallLines[i]]>>
                    [] OTHER -> <<>>])

\* An assistant call on a text with a wrapped line that contains a keyword
\* and a line that matches neither rule.
C15_Witness ==
    /\ Extracted("assistant")
    /\ \E i \in 1..Len(CallLines) : IsHeading(CallLines[i]) /\ HasKeyword(CallLines[i])
    /\ \E i \in 1..Len(CallLines) : ~ IsHeading(CallLines[i]) /\ ~ HasKeyword(CallLines[i])

\* C11 - store_memory rejects empty content: a store_memory call whose
\* content is the empty string raises and writes nothing, so no record of
\* the collection has the empty string as its content.
C11_EmptyRejected == \A e \in store : e.page_content # ""

\* continue_story has built the memory context of its run.
ContextBuilt == story.pc # "idle" /\ InList("agenerate", story.steps)

\* C13 - _build_memory_context on the empty list returns the sentence
\* "No previous context available.", and on no list of memories does it
\* return the empty string.
C13_ContextNeverEmpty ==
    ContextBuilt =>
        /\ story.memory_context # ""
        /\ story.relevant_memories = <<>> =>
               story.memory_context = "No previous context available."

\* A context built from no memory, the collection holding the action just
\* stored.
C13_Witness ==
    /\ ContextBuilt
    /\ story.relevant_memories = <<>>
    /\ store # {}

\* continue_story has returned the text the language model generated.
ReturnedResponse ==
    /\ story.pc = "returned"
    /\ ~ StartsWith(story.result[1], "Error continuing story:")

\* C16 - Turn ordering: a run of continue_story that returns a generated
\* response has stored the player's action, then called retrieve_memories,
\* then get_recent_memories, then the language model, then stored the
\* response, then each event extracted from it; and in no run is the
\* language model called before the player's action is stored.
C16_TurnOrder ==
    /\ ReturnedResponse =>
           story.steps =
               <<"store_action", "retrieve_memories", "get_recent_memories",
                 "agenerate", "store_response">>
               \o [i \in 1..Len(ExtractKeyEvents(story.story_response, "assistant"))
                       |-> "store_event"]
    /\ ContextBuilt => story.steps[1] = "store_action" /\ Len(story.steps) > 1

\* A run that returned its response after storing two events.
C16_Witness ==
    /\ ReturnedResponse
    /\ Len(story.steps) = 7

\* C17 - Retrieval failures do not abort the turn: a run of continue_story
\* returns an error only for an exception of store_memory or of the language
\* model; whatever retrieve_memories and get_recent_memories met, a run whose
\* stores and generation succeed has called the language model and returns
\* the text it generated.
C17_RetrievalTolerated ==
    story.pc = "returned" =>
        \/ /\ story.result = Given(story.story_response)
           /\ InList("agenerate", story.steps)
        \/ story.result \in {Given("Error continuing story: store_memory"),
                             Given("Error continuing story: agenerate")}

\* A run that returned its response although both retrievals failed, the
\* fallback of get_recent_memories included.
C17_Witness ==
    /\ ReturnedResponse
    /\ story.retrieve_failed
    /\ story.recent_path = "none"
    /\ story.result = Given(story.story_response)

\* C18 - Deletion failures never escalate: when the cleanup of a session's
\* memories fails (returns False, or an exception leaves the memory store),
\* delete_session still calls delete_chat and answers 200 exactly when the
\* row could be deleted, the row being gone then; delete_user_account still
\* deletes the user's rows and answers success.
C18_NoEscalation ==
    /\ (last.op = "delete_session" /\ last.chat_exists /\ last.memory_failed) =>
           /\ last.delete_chat_called
           /\ last.status = 200 <=> ~ last.db_failed
           /\ ~ last.db_failed => chats[last.session_id] = "gone"
    /\ (last.op = "delete_user_account" /\ last.memory_errors > 0) =>
           /\ last.success /\ last.status = 200
           /\ ~ last.db_failed =>
                  \A chat_id \in Chats : Owner(chat_id) = last.user_id =>
                                             chats[chat_id] # "row"

\* A session deleted with success although its memories could not be
\* deleted: they are still in the collection.
C18_Witness ==
    /\ last.op = "delete_session"
    /\ last.memory_failed
    /\ last.status = 200
    /\ \E e \in store : Get(e.metadata, "chat_id") = last.session_id

\* The candidate e passes the scope, kind and role tests of the last call.
Passes(e) ==
    /\ ScopeMatches(e.metadata, last.user_id, last.chat_id)
    /\ ~ KindRejected(e.metadata, last.memory_types)
    /\ ~ RoleRejected(e.metadata, last.include_roles)

\* The candidates of the last call that pass, in the index's order.
Passing == SelectSeq(last.candidates, Passes)

C20_Overfetch ==
    last.op = "retrieve" =>
        /\ Len(last.queries) = 1
        /\ last.queries[1].filter = Absent
        /\ last.queries[1].k = last.k * OVERFETCH
        /\ OVERFETCH >= 10
        /\ \A d \in Results :
               \E i \in 1..Len(last.candidates) : d = Document(last.candidates[i])

\* A retrieval whose candidates hold a record of another scope, which an
\* index filter would have kept away, and a record that is returned.
C20_Witness ==
    /\ last.op = "retrieve"
    /\ Results # {}
    /\ \E i \in 1..Len(last.candidates) :
           ~ ScopeMatches(last.candidates[i].metadata, last.user_id, last.chat_id)

\* No call occurs twice in the sequence.
Once(calls) == \A i, j \in 1..Len(calls) : i # j => calls[i] # calls[j]

\* C22 - Bounded fallback: one call of get_recent_memories or of
\* delete_chat_memories tries its preferred path once and its fallback once
\* at most, then returns a list, or a boolean; it raises nothing, whichever
\* calls on the index fail.
C22_BoundedFallback ==
    /\ last.op = "recent" =>
           /\ Once(last.calls) /\ last.calls[1] = "similarity_search"
           /\ Len(last.calls) <= 2
           /\ ~ last.raised
           /\ DOMAIN last.result = 1..Len(last.result)
    /\ last.op = "delete" =>
           /\ Once(last.calls) /\ last.calls[1] = "delete_where"
           /\ Len(last.calls) <= 3
           /\ ~ last.raised
           /\ last.result \in BOOLEAN

\* A get_recent_memories whose similarity search and whose fallback both
\* failed, on a collection that holds records of the scope.
C22_Witness ==
    /\ last.op = "recent"
    /\ last.path = "none"
    /\ InScope(store, last.user_id, last.chat_id) # {}

\* C23 - Delete fallback: delete_chat_memories first issues one delete by
\* filter; only when that call raises does it query for candidate ids and
\* delete by ids those whose chat_id is the target; it returns False exactly
\* when the direct delete and the fallback (its query, or its delete by ids)
\* both fail, True otherwise.
C23_DeleteFallback ==
    last.op = "delete" =>
        /\ last.calls[1] = "delete_where"
        /\ Len(last.calls) > 1 <=> last.direct_failed
        /\ last.result = ~ (last.direct_failed
                            /\ (last.query_failed \/ last.delete_failed))
        /\ (last.path = "fallback" /\ last.had > 0 /\ Len(last.calls) = 3) =>
               Cardinality({e \in store : Get(e.metadata, "chat_id") = last.chat_id})
                   < last.had

\* A delete that succeeded through the fallback and removed a record of the
\* chat by its id.
C23_Witness ==
    /\ last.op = "delete"
    /\ last.direct_failed
    /\ last.result
    /\ Len(last.calls) = 3

\* C26 - the scope fields of a stored record are the arguments of the call:
\* after a store_memory that succeeded, the record of the returned id has
\* the user_id, chat_id and role of the call, whatever additional_metadata
\* is, a mapping with the key user_id included.
C26_CoreFieldsKept ==
    (last.op = "store" /\ ~ last.raised) =>
        \E e \in store :
            /\ e.id = last.result
            /\ Get(e.metadata, "user_id") = last.user_id
            /\ Get(e.metadata, "chat_id") = last.chat_id
            /\ Get(e.metadata, "role") = last.role

Eligible(e) ==
    /\ Get(e.metadata, "user_id") = last.user_id
    /\ Get(e.metadata, "chat_id") = last.chat_id
    /\ last.memory_types \notin {Absent, Given(<<>>)} =>
           InList(Get(e.metadata, "memory_type"), last.memory_types[1])
    /\ last.include_roles \notin {Absent, Given(<<>>)} =>
           InList(Get(e.metadata, "role"), last.include_roles[1])

\* C28 - in retrieve_memories an allow-list that is None or the empty list
\* restricts nothing: the records returned are the first k candidates that
\* are in the scope and in each allow-list that has elements, so an empty
\* allow-list lets every memory type, every role through.
C28_EmptyListNoRestriction ==
    (last.op = "retrieve" /\ ~ last.failed) =>
        LET eligible == SelectSeq(last.candidates, Eligible)
        IN  last.result = [i \in 1..Min(last.k, Len(eligible)) |-> Document(eligible[i])]

\* A retrieval under two empty allow-lists that returned a record.
C28_Witness ==
    /\ last.op = "retrieve"
    /\ last.memory_types = Given(<<>>)
    /\ last.include_roles = Given(<<>>)
    /\ Results # {}

\* C21 - Recency fallback chain: when the similarity search of
\* get_recent_memories raises or gives no record of the scope, the method
\* reads the whole collection and filters it; so a call that returns the
\* empty list without an exception is a call on a scope without records.
C21_FallbackWhenEmpty ==
    (last.op = "recent" /\ last.path = "vectorstore" /\ last.result = <<>>) =>
        InScope(store, last.user_id, last.chat_id) = {}

\* C24 - Context merge: the memory context continue_story hands to the
\* language model is built from the records of retrieve_memories and from
\* those of get_recent_memories, so the content of every record
\* get_recent_memories returned is in the context.
C24_ContextMerge ==
    ContextBuilt =>
        \A i \in 1..Len(story.recent_memories) :
            Contains(story.memory_context, story.recent_memories[i].page_content)

\* The entries of the first n memories, one after the other, each on a new
\* line.
RECURSIVE EntriesUpTo(_, _)
EntriesUpTo(memories, n) ==
    IF n = 0 THEN ""
    ELSE (IF n = 1 THEN "" ELSE EntriesUpTo(memories, n - 1) \o "\n")
         \o "Memory " \o ToString(n) \o " [" \o memories[n].metadata.role \o ", "
         \o memories[n].metadata.memory_type \o "]: " \o memories[n].page_content

\* C25 - _build_memory_context keeps the order of its input: for a list
\* that is not empty the context is one entry a record, the i-th entry
\* numbered i and made of the role, the memory type and the whole content
\* of the i-th record; nothing is dropped, repeated, reordered or cut.
C25_OrderPreserved ==
    (ContextBuilt /\ story.relevant_memories # <<>>) =>
        story.memory_context
            = EntriesUpTo(story.relevant_memories, Len(story.relevant_memories))

\* A context built from two memories of different content.
C25_Witness ==
    /\ ContextBuilt
    /\ Len(story.relevant_memories) = 2
    /\ story.relevant_memories[1].page_content # story.relevant_memories[2].page_content

\* The limits of the endpoint a key belongs to.
LimitOf(key) ==
    LIMITS[CHOOSE func \in DOMAIN LIMITS : \E user_id \in Users : key = RateKey(func, user_id)]

\* How many calls for the key were let through at a time of from..to.
GrantedIn(granted, key, from, to) ==
    Cardinality({i \in DOMAIN granted[key] : granted[key][i] \in from..to})

\* s is what is left of q after dropping entries from its left.
IsSuffix(s, q) ==
    /\ Len(s) <= Len(q)
    /\ s = SubSeq(q, Len(q) - Len(s) + 1, Len(q))

\* What is_allowed would answer for the key on the deques at the time.
WouldAllow(requests, key, now) ==
    IsAllowed(requests, key, LimitOf(key).max_requests, LimitOf(key).window_seconds,
              now).result

\* A step of the limiter that is a request for a user (time stands still).
LimiterCall == clock' = clock /\ last'.op = "rate_limit" /\ last'.asked

\* C29: under a clock that never goes back, for each key at most
\* max_requests calls are let through at the times of any closed interval of
\* window_seconds; a call that is refused leaves no entry in the key's deque
\* (old entries may be dropped, none is added) ; and a call for one key
\* leaves the deque of every other key as it was, so that what is_allowed
\* would answer for the other key at that time is unchanged.
C29_SlidingWindow ==
    [][/\ \A key \in RateKeys, from \in 0..MaxNow :
              GrantedIn(rate_limiter.granted', key, from,
                        from + LimitOf(key).window_seconds)
                  <= LimitOf(key).max_requests
       /\ LimiterCall =>
              /\ ~last'.result =>
                     /\ IsSuffix(rate_limiter.requests'[last'.key],
                                 rate_limiter.requests[last'.key])
                     /\ rate_limiter.granted' = rate_limiter.granted
              /\ \A other \in RateKeys \ {last'.key} :
                     /\ rate_limiter.requests'[other] = rate_limiter.requests[other]
                     /\ WouldAllow(rate_limiter.requests', other, clock')
                            = WouldAllow(rate_limiter.requests, other, clock)]_vars

\* A call is refused for a key whose window has slid (the limiter has let
\* through more calls for it than max_requests, over time) while another
\* key holds entries of its own.
C29_Witness ==
    /\ last.op = "rate_limit"
    /\ last.asked
    /\ ~last.result
    /\ Len(rate_limiter.granted[last.key]) > LimitOf(last.key).max_requests
    /\ Len(rate_limiter.requests[last.key]) = LimitOf(last.key).max_requests
    /\ \E other \in RateKeys \ {last.key} : rate_limiter.requests[other] # <<>>

\* C30: when the image task has run for a chat, a status it has set to
\* "ready" means that every variant of that image type was put in the
\* bucket during the run, a type with a variant missing has the status
\* "failed", and neither status is "pending".
C30_ReadyImpliesStored ==
    last.op = "generate_images_background" =>
        \A image_type \in ImageTypes :
            LET status == images[last.chat_id][image_type]
                stored == \A i \in 1..Len(Variants(image_type)) :
                              <<image_type, Variants(image_type)[i]>> \in last.put
            IN  /\ (last.updated[image_type] /\ status = "ready") => stored
                /\ ~ stored => status = "failed"
                /\ status # "pending"

====
